---- MODULE Spec2Model ----
(***************************************************************************)
(* Time-series data cache of the stock_quantization dashboard.             *)
(*                                                                         *)
(*   range store : SmartCacheManager  (src/src/data_provider/              *)
(*                 data_manager.py), one bar series file and one metadata  *)
(*                 entry per symbol;                                       *)
(*   day store   : IntradayCacheManager (intraday_cache.py) driven by      *)
(*                 MairuiDataProvider.get_intraday_trades                  *)
(*                 (mairui_provider.py), one tick file and one metadata    *)
(*                 entry per (symbol, trading day).                        *)
(*                                                                         *)
(* The wall clock `now` counts hours; a calendar day is 24 of them.        *)
(* Bar dates are day numbers 1..MaxDate; a bar is [date, val], val         *)
(* standing for the OHLCV payload.  A DataFrame is the sequence of its     *)
(* rows in stored order, its index the sequence of their dates.            *)
(***************************************************************************)
EXTENDS Integers, Sequences, FiniteSets, TLC

\* ---- bounds of the model -------------------------------------------------
MaxDate == 3        \* bar dates are 1..MaxDate
MaxVal == 2         \* bar payloads are 1..MaxVal
MaxResp == 2        \* a fetch response holds at most MaxResp rows
TickDays == 4       \* the range-store clock advances in steps of TickDays days
MaxDays == 8        \* ... up to day MaxDays
MaxTradeDay == 1    \* trading days asked for by date are 0..MaxTradeDay
MaxTickTime == 2    \* tick timestamps within a day are 1..MaxTickTime
MaxTickVal == 2     \* tick payloads are 1..MaxTickVal

\* ---- program constants ---------------------------------------------------
cache_expire_days == 7
HoursPerDay == 24
data_update_hour == 21              \* IntradayCacheManager.data_update_hour
api_update_hour == 21               \* the hour get_intraday_trades compares with
default_update_hour == 21           \* ... and the one it picks the default day by
intraday_cache_expire_days == -1    \* DATA_CONFIG default: never expires

Symbols == {"A"}

\* every key the range store is ever addressed by: the symbols of the
\* direct callers and those of the callers of the facade
CacheKeys == {"A", "B", "600519", "600519.SH"}
Dates == 1..MaxDate
Vals == 1..MaxVal
Bar == [date : Dates, val : Vals]

\* Optional[DataFrame]: Python's None and an exception are encoded as frames
\* no fetch or file can hold (their row has date 0).
None == << [date |-> 0, val |-> 0] >>
Raised == << [date |-> 0, val |-> 1] >>
NoSymbol == "None"      \* clear_cache(symbol=None)

\* damaged persisted state: a series file pd.read_csv cannot read, and a
\* last_update datetime.fromisoformat cannot parse (or none at all)
Unreadable == << [date |-> 0, val |-> 2] >>
Unparsable == -1

\* Python dicts and directories are functions on the set of their keys.
EmptyDict == [k \in {} |-> 0]

DictSet(d, k, v) == [x \in DOMAIN d \cup {k} |-> IF x = k THEN v ELSE d[x]]

DictDel(d, k) == [x \in DOMAIN d \ {k} |-> d[x]]

VARIABLES
    now,        \* wall clock, in hours
    files,      \* range store: the <symbol>.csv files, symbol -> rows
    metadata,   \* range store: cache_metadata.json, symbol -> entry
    asked,      \* history: symbol -> dates some fetch range has covered since
                \*          the symbol's series was created
    last,       \* the last range-store call: [op, sym, start, end]
    loaded,     \* the cached_data that call loaded (rows, or None)
    calls,      \* the ranges the last call passed to data_fetcher, in order
    responses,  \* what data_fetcher returned for each of them
    result,     \* what the last call returned (rows), or Raised
    intraday_files,     \* day store: <<symbol, day>> -> ticks of the parquet file
    intraday_metadata,  \* day store: intraday_metadata.json, <<symbol, day>> -> entry
    intraday_dirs,      \* day store: the symbols that have a directory
    cleaned_count,      \* what the last cleanup_old_data returned
    licence,            \* MairuiDataProvider.licence is configured
    last_trades_call,   \* the last day-store call: [op, sym, arg, day], arg the
                        \* trade_date passed and day the one it resolved to
    requested,          \* that call sent a request to the provider's API
    api_data,           \* what the API answered (ticks or ApiError), else None
    saved,              \* that call called save_intraday_data
    trades,             \* what that call returned (ticks), or None
    facade,             \* the last calls through DataManager: the last
                        \* get_stock_data or clear_cache (op, sym and arguments),
                        \* the data it returned, and what get_cache_info(info_for)
                        \* has returned since (queried, info_for, info)
    managers,           \* the SmartCacheManager instances of the step-by-step
                        \* view: instance -> [pc, sym, metadata, data], with
                        \* metadata the instance's self.metadata and data the
                        \* frame it is about to save
    pending             \* the request of get_intraday_trades to the provider's
                        \* API in the step-by-step view: [pc, sym, day, api_day],
                        \* day the trade_date the call checked and saves under,
                        \* api_day the day the API served when it answered

rangevars == <<files, metadata, asked, last, loaded, calls, responses, result>>

dayvars == <<intraday_files, intraday_metadata, intraday_dirs, cleaned_count,
             licence, last_trades_call, requested, api_data, saved, trades>>

facadevars == <<facade>>

managervars == <<managers>>

requestvars == <<pending>>

vars == <<now, files, metadata, asked, last, loaded, calls, responses, result,
          intraday_files, intraday_metadata, intraday_dirs, cleaned_count,
          licence, last_trades_call, requested, api_data, saved, trades,
          facade, managers, pending>>

\* ---- sequences as DataFrames ---------------------------------------------
Range(seq) == {seq[i] : i \in DOMAIN seq}

DatesOf(df) == {df[i].date : i \in DOMAIN df}

SetMin(S) == CHOOSE x \in S : \A y \in S : x <= y

SetMax(S) == CHOOSE x \in S : \A y \in S : x >= y

IndexMin(df) == SetMin(DatesOf(df))

IndexMax(df) == SetMax(DatesOf(df))

InRange(b, lo, hi) == lo <= b.date /\ b.date <= hi

\* mutant of Loc: the slice is forgotten, the whole frame is returned
Loc_whole_frame(df, lo, hi) == df

\* df.loc[lo:hi] on a date index: the rows whose date lies in [lo, hi], in
\* stored order.  That is what label slicing gives on a sorted index; a frame
\* stored out of order is sliced by date here as well.
Loc(df, lo, hi) == SelectSeq(df, LAMBDA b : InRange(b, lo, hi))

\* combined[~combined.index.duplicated(keep='last')]
RECURSIVE DropDuplicatedKeepLast(_)
DropDuplicatedKeepLast(df) ==
    IF df = <<>> THEN <<>>
    ELSE IF \E j \in 2..Len(df) : df[j].date = Head(df).date
         THEN DropDuplicatedKeepLast(Tail(df))
         ELSE <<Head(df)>> \o DropDuplicatedKeepLast(Tail(df))

\* df.sort_index() for a frame whose dates are pairwise distinct
RECURSIVE SortIndex(_)
SortIndex(df) ==
    IF df = <<>> THEN <<>>
    ELSE LET m == IndexMin(df)
         IN Loc(df, m, m) \o SortIndex(SelectSeq(df, LAMBDA b : b.date # m))

\* pd.concat(frames): the rows of the frames one after the other
RECURSIVE Concat(_)
Concat(frames) ==
    IF frames = <<>> THEN <<>> ELSE Head(frames) \o Concat(Tail(frames))

\* ---- the fetch function ---------------------------------------------------
\* data_fetcher is an opaque callable: a response is any sequence of at most
\* MaxResp rows (any dates, any order, repeated dates, or empty on failure).
Response == UNION {[1..n -> Bar] : n \in 0..MaxResp}

\* ---- range store: SmartCacheManager --------------------------------------
MetaEntry(t, df) ==
    [last_update |-> t,
     start |-> IndexMin(df),
     end |-> IndexMax(df),
     record_count |-> Len(df)]

\* (datetime.now() - last_update).days
DaysSince(t) == (now - t) \div HoursPerDay

\* datetime.fromisoformat(cache_info['last_update']) raises (line 65)
last_update_raises(s) ==
    s \in DOMAIN metadata /\ metadata[s].last_update = Unparsable

_is_cache_valid(s) ==
    IF s \notin DOMAIN metadata THEN FALSE
    ELSE DaysSince(metadata[s].last_update) <= cache_expire_days

_get_cached_data(s) ==
    IF ~_is_cache_valid(s) THEN None
    ELSE IF s \notin DOMAIN files THEN None
    ELSE IF files[s] = Unreadable THEN None
    ELSE files[s]

\* combined[~combined.index.duplicated(keep='first')]
RECURSIVE DropDuplicatedKeepFirst(_)
DropDuplicatedKeepFirst(df) ==
    IF df = <<>> THEN <<>>
    ELSE <<Head(df)>>
         \o DropDuplicatedKeepFirst(SelectSeq(Tail(df), LAMBDA b : b.date # Head(df).date))

\* mutant of _merge_data_ranges: duplicated dates keep the first (cached) row
_merge_data_ranges_keep_first(existing_data, new_data) ==
    IF existing_data = None \/ existing_data = <<>>
    THEN (IF new_data # None THEN new_data ELSE <<>>)
    ELSE IF new_data = None \/ new_data = <<>> THEN existing_data
    ELSE SortIndex(DropDuplicatedKeepFirst(existing_data \o new_data))

_merge_data_ranges(existing_data, new_data) ==
    IF existing_data = None \/ existing_data = <<>>
    THEN (IF new_data # None THEN new_data ELSE <<>>)
    ELSE IF new_data = None \/ new_data = <<>> THEN existing_data
    ELSE SortIndex(DropDuplicatedKeepLast(existing_data \o new_data))

\* mutant of _get_missing_date_ranges: the gaps start and end on the cached
\* extremes themselves (the timedelta(days=1) is dropped)
_get_missing_date_ranges_no_step(s, start_date, end_date) ==
    LET cached_data == _get_cached_data(s)
    IN IF cached_data = None \/ cached_data = <<>>
       THEN << <<start_date, end_date>> >>
       ELSE (IF start_date < IndexMin(cached_data)
             THEN << <<start_date, IndexMin(cached_data)>> >> ELSE <<>>)
            \o
            (IF end_date > IndexMax(cached_data)
             THEN << <<IndexMax(cached_data), end_date>> >> ELSE <<>>)

_get_missing_date_ranges(s, start_date, end_date) ==
    LET cached_data == _get_cached_data(s)
    IN IF cached_data = None \/ cached_data = <<>>
       THEN << <<start_date, end_date>> >>
       ELSE (IF start_date < IndexMin(cached_data)
             THEN << <<start_date, IndexMin(cached_data) - 1>> >> ELSE <<>>)
            \o
            (IF end_date > IndexMax(cached_data)
             THEN << <<IndexMax(cached_data) + 1, end_date>> >> ELSE <<>>)

\* the request is answered from the cache alone (lines 168-177)
FullyCovered(s, start_date, end_date) ==
    LET cached_data == _get_cached_data(s)
    IN /\ cached_data # None
       /\ cached_data # <<>>
       /\ IndexMin(cached_data) <= start_date
       /\ IndexMax(cached_data) >= end_date

\* the dates a list of fetch ranges covers
Covered(ranges) ==
    {d \in Dates : \E i \in DOMAIN ranges : ranges[i][1] <= d /\ d <= ranges[i][2]}

\* mutant of _save_data_to_cache: the entry is stamped with the date of the
\* oldest bar (data.index.min()), not with now()
_save_data_to_cache_stamps_oldest_bar(s, data) ==
    /\ files' = DictSet(files, s, data)
    /\ metadata' = DictSet(metadata, s, MetaEntry(IndexMin(data), data))

\* _save_data_to_cache: the series file first, then the metadata entry
_save_data_to_cache(s, data) ==
    /\ files' = DictSet(files, s, data)
    /\ metadata' = DictSet(metadata, s, MetaEntry(now, data))

\* mutant of serve_available_data: a refresh that brought nothing drops the
\* symbol's cache
serve_available_data_drops_cache(s, cached_data, start_date, end_date) ==
    /\ files' = DictDel(files, s)
    /\ metadata' = DictDel(metadata, s)
    /\ result' = IF cached_data = None THEN Raised
                 ELSE Loc(cached_data, start_date, end_date)

\* no gap brought new data (lines 209-215): the part of the cached frame
\* between max(index.min(), start) and min(index.max(), end) is returned;
\* cached_data.loc raises when cached_data is None
serve_available_data(s, cached_data, start_date, end_date) ==
    /\ UNCHANGED <<files, metadata>>
    /\ result' =
          IF cached_data = None THEN Raised
          ELSE Loc(cached_data,
                   IF IndexMin(cached_data) >= start_date
                   THEN IndexMin(cached_data) ELSE start_date,
                   IF IndexMax(cached_data) <= end_date
                   THEN IndexMax(cached_data) ELSE end_date)

\* data_fetcher is the set of responses the fetch function may give
get_data_with_cache(s, start_date, end_date, data_fetcher) ==
    IF last_update_raises(s)
    THEN \* _is_cache_valid raises and nothing in the manager catches it
         /\ last' = [op |-> "get", sym |-> s, start |-> start_date, end |-> end_date]
         /\ loaded' = None
         /\ result' = Raised
         /\ calls' = <<>>
         /\ responses' = <<>>
         /\ UNCHANGED <<now, files, metadata, asked>>
    ELSE
        LET cached_data == _get_cached_data(s)
            missing_ranges == _get_missing_date_ranges(s, start_date, end_date)
        IN /\ last' = [op |-> "get", sym |-> s, start |-> start_date, end |-> end_date]
           /\ loaded' = cached_data
           /\ UNCHANGED now
           /\ IF FullyCovered(s, start_date, end_date)
              THEN /\ result' = Loc(cached_data, start_date, end_date)
                   /\ calls' = <<>>
                   /\ responses' = <<>>
                   /\ UNCHANGED <<files, metadata, asked>>
              ELSE IF missing_ranges = <<>>
              THEN /\ result' = (IF cached_data # None /\ cached_data # <<>>
                                 THEN Loc(cached_data, start_date, end_date) ELSE <<>>)
                   /\ calls' = <<>>
                   /\ responses' = <<>>
                   /\ UNCHANGED <<files, metadata, asked>>
              ELSE \E resps \in [DOMAIN missing_ranges -> data_fetcher] :
                   LET new_data_list == SelectSeq(resps, LAMBDA r : r # <<>>)
                       updated_data == _merge_data_ranges(cached_data, Concat(new_data_list))
                   IN /\ calls' = missing_ranges
                      /\ responses' = resps
                      /\ IF new_data_list # <<>>
                         THEN /\ _save_data_to_cache(s, updated_data)
                              /\ result' = Loc(updated_data, start_date, end_date)
                              /\ asked' = [asked EXCEPT ![s] =
                                    (IF cached_data = None THEN {} ELSE @)
                                        \cup Covered(missing_ranges)]
                         ELSE /\ asked' = [asked EXCEPT ![s] = @ \cup Covered(missing_ranges)]
                              /\ serve_available_data(s, cached_data, start_date, end_date)

\* mutant of clear_cache: the symbol's metadata entry is left behind
clear_cache_keeps_metadata(s) ==
    /\ last' = [op |-> "clear", sym |-> s, start |-> 0, end |-> 0]
    /\ files' = (IF s # NoSymbol THEN DictDel(files, s) ELSE EmptyDict)
    /\ asked' = [x \in CacheKeys |-> IF s \in {x, NoSymbol} THEN {} ELSE asked[x]]
    /\ loaded' = None
    /\ calls' = <<>>
    /\ responses' = <<>>
    /\ result' = <<>>
    /\ UNCHANGED <<now, metadata>>

\* mutant of clear_cache: the symbol is ignored and everything is cleared
clear_cache_clears_everything(s) ==
    /\ last' = [op |-> "clear", sym |-> s, start |-> 0, end |-> 0]
    /\ files' = EmptyDict
    /\ metadata' = EmptyDict
    /\ asked' = [x \in CacheKeys |-> {}]
    /\ loaded' = None
    /\ calls' = <<>>
    /\ responses' = <<>>
    /\ result' = <<>>
    /\ UNCHANGED now

clear_cache(s) ==
    /\ last' = [op |-> "clear", sym |-> s, start |-> 0, end |-> 0]
    /\ IF s # NoSymbol
       THEN /\ files' = DictDel(files, s)
            /\ metadata' = DictDel(metadata, s)
            /\ asked' = [asked EXCEPT ![s] = {}]
       ELSE /\ files' = EmptyDict
            /\ metadata' = EmptyDict
            /\ asked' = [x \in CacheKeys |-> {}]
    /\ loaded' = None
    /\ calls' = <<>>
    /\ responses' = <<>>
    /\ result' = <<>>
    /\ UNCHANGED now

\* the wall clock moves on between calls
Tick ==
    /\ now + TickDays * HoursPerDay <= MaxDays * HoursPerDay
    /\ now' = now + TickDays * HoursPerDay
    /\ UNCHANGED <<files, metadata, asked, last, loaded, calls, responses, result>>

\* ---- the caller ------------------------------------------------------------
\* The store is synchronous: one call at a time.  `last`, `loaded`, `calls`,
\* `responses` and `result` describe the call that has just returned; the caller drops
\* them (Forget) before it issues an unrelated call.
NoCall == [op |-> "idle", sym |-> NoSymbol, start |-> 0, end |-> 0]

Idle == last = NoCall

Forget ==
    /\ ~Idle
    /\ last' = NoCall
    /\ loaded' = None
    /\ calls' = <<>>
    /\ responses' = <<>>
    /\ result' = <<>>
    /\ UNCHANGED <<now, files, metadata, asked>>
    /\ UNCHANGED <<dayvars, facadevars, managervars, requestvars>>

NoTradesCall == [op |-> "idle", sym |-> NoSymbol, arg |-> 0, day |-> 0]

\* the instances a process may hold, and the state of one not constructed
Managers == {"m1", "m2"}

NoManager == [pc |-> "none", sym |-> NoSymbol, metadata |-> EmptyDict, data |-> <<>>]

NoPending == [pc |-> "idle", sym |-> NoSymbol, day |-> 0, api_day |-> 0]

NoFacadeCall ==
    [op |-> "idle", sym |-> NoSymbol, start |-> 0, end |-> 0,
     provider |-> NoSymbol, market_type |-> NoSymbol, use_cache |-> FALSE,
     data |-> <<>>, queried |-> FALSE, info_for |-> NoSymbol, info |-> EmptyDict]

\* both stores empty, no call made yet
InitStores ==
    /\ now = 0
    /\ files = EmptyDict
    /\ metadata = EmptyDict
    /\ asked = [s \in CacheKeys |-> {}]
    /\ last = NoCall
    /\ loaded = None
    /\ calls = <<>>
    /\ responses = <<>>
    /\ result = <<>>
    /\ intraday_files = EmptyDict
    /\ intraday_metadata = EmptyDict
    /\ intraday_dirs = {}
    /\ cleaned_count = 0
    /\ last_trades_call = NoTradesCall
    /\ requested = FALSE
    /\ api_data = None
    /\ saved = FALSE
    /\ trades = None
    /\ facade = NoFacadeCall
    /\ managers = [m \in Managers |-> NoManager]
    /\ pending = NoPending

\* API_CONFIG.get('mairui_licence', ''): no licence unless one is configured
Init == InitStores /\ licence = FALSE

GetRange ==
    /\ Idle
    /\ \E s \in Symbols, a \in Dates, b \in Dates :
           get_data_with_cache(s, a, b, Response)
    /\ UNCHANGED <<dayvars, facadevars, managervars, requestvars>>

ClearSymbol == Idle /\ (\E s \in Symbols : clear_cache(s)) /\ UNCHANGED <<dayvars, facadevars, managervars, requestvars>>

ClearAll == Idle /\ clear_cache(NoSymbol) /\ UNCHANGED <<dayvars, facadevars, managervars, requestvars>>

TickIdle == Idle /\ Tick /\ UNCHANGED <<dayvars, facadevars, managervars, requestvars>>

Next == GetRange \/ ClearSymbol \/ ClearAll \/ TickIdle \/ Forget

Spec == Init /\ [][Next]_vars

\* The caller of test_basic_cache.py: it keeps the data of a get, lets time
\* pass and issues the same get again to compare the two results, while the
\* provider has nothing new: every row it returns is a row the series file
\* holds already.
Holding == last.op = "get"

TickHolding == Holding /\ Tick /\ UNCHANGED <<dayvars, facadevars, managervars, requestvars>>

NothingNewFetcher(s) ==
    {r \in Response : \A j \in DOMAIN r : s \in DOMAIN files /\ r[j] \in Range(files[s])}

GetAgain ==
    /\ Holding
    /\ get_data_with_cache(last.sym, last.start, last.end, NothingNewFetcher(last.sym))
    /\ UNCHANGED <<dayvars, facadevars, managervars, requestvars>>

NextTwice == Next \/ TickHolding \/ GetAgain

TwiceSpec == Init /\ [][NextTwice]_vars

\* ---- day store: IntradayCacheManager and MairuiDataProvider --------------
\* A tick is [time, val]: its timestamp within the trading day and its
\* payload.  Trading days are day numbers; the key of an entry is
\* <<symbol, day>>.  A parquet file gives back the rows it was written with,
\* in the order written.
ProviderSymbols == {"A", "SZA"}     \* as passed by the caller

TradeDays == 0..MaxTradeDay

NoDate == -2                        \* trade_date=None

Trade == [time : 1..MaxTickTime, val : 1..MaxTickVal]

\* the provider's API answers with a list of at most MaxResp ticks, in any
\* order
ApiResponse == UNION {[1..n -> Trade] : n \in 0..MaxResp}

\* the request raised (timeout, HTTP error, undecodable body)
ApiError == << [time |-> 0, val |-> 0] >>

Today == now \div HoursPerDay

Hour(t) == t % HoursPerDay

\* df.sort_index(ascending=True): rows of equal timestamp keep their order
RECURSIVE SortAscending(_)
SortAscending(df) ==
    IF df = <<>> THEN <<>>
    ELSE LET m == SetMin({df[i].time : i \in DOMAIN df})
         IN SelectSeq(df, LAMBDA r : r.time = m)
            \o SortAscending(SelectSeq(df, LAMBDA r : r.time # m))

\* data.sort_index(ascending=False)
RECURSIVE SortDescending(_)
SortDescending(df) ==
    IF df = <<>> THEN <<>>
    ELSE LET m == SetMax({df[i].time : i \in DOMAIN df})
         IN SelectSeq(df, LAMBDA r : r.time = m)
            \o SortDescending(SelectSeq(df, LAMBDA r : r.time # m))

_format_symbol(symbol) == IF symbol = "SZA" THEN "A" ELSE symbol

_get_metadata_key(symbol, trade_date) == <<symbol, trade_date>>

_is_data_updated_today(symbol, trade_date) ==
    IF trade_date = Today THEN Hour(now) >= data_update_hour ELSE TRUE

\* mutant of Intraday_is_cache_valid: an entry of today written in the hour
\* of the update itself counts as written before it (> for >=)
Intraday_is_cache_valid_after_update_hour(symbol, trade_date) ==
    LET metadata_key == _get_metadata_key(symbol, trade_date)
    IN IF metadata_key \notin DOMAIN intraday_metadata THEN FALSE
       ELSE IF metadata_key \notin DOMAIN intraday_files THEN FALSE
       ELSE IF trade_date = Today
            THEN (IF ~_is_data_updated_today(symbol, trade_date) THEN TRUE
                  ELSE Hour(intraday_metadata[metadata_key].last_update) > data_update_hour)
       ELSE TRUE

\* mutant of Intraday_is_cache_valid: the hour of last_update is compared
\* with the update hour for every day, not only for today
Intraday_is_cache_valid_hour_of_any_day(symbol, trade_date) ==
    LET metadata_key == _get_metadata_key(symbol, trade_date)
    IN IF metadata_key \notin DOMAIN intraday_metadata THEN FALSE
       ELSE IF metadata_key \notin DOMAIN intraday_files THEN FALSE
       ELSE IF ~_is_data_updated_today(symbol, trade_date) THEN TRUE
       ELSE Hour(intraday_metadata[metadata_key].last_update) >= data_update_hour

\* IntradayCacheManager._is_cache_valid
Intraday_is_cache_valid(symbol, trade_date) ==
    LET metadata_key == _get_metadata_key(symbol, trade_date)
    IN IF metadata_key \notin DOMAIN intraday_metadata THEN FALSE
       ELSE IF metadata_key \notin DOMAIN intraday_files THEN FALSE
       ELSE IF trade_date = Today
            THEN (IF ~_is_data_updated_today(symbol, trade_date) THEN TRUE
                  ELSE Hour(intraday_metadata[metadata_key].last_update) >= data_update_hour)
       ELSE IF intraday_cache_expire_days >= 0
            THEN DaysSince(intraday_metadata[metadata_key].last_update)
                     <= intraday_cache_expire_days
       ELSE TRUE

\* the data is never None or empty where save_intraday_data is called
save_intraday_data(symbol, trade_date, data) ==
    /\ intraday_dirs' = intraday_dirs \cup {symbol}
    /\ intraday_files' = DictSet(intraday_files, <<symbol, trade_date>>, data)
    /\ intraday_metadata' =
           DictSet(intraday_metadata, _get_metadata_key(symbol, trade_date),
                   [symbol |-> symbol,
                    trade_date |-> trade_date,
                    last_update |-> now,
                    record_count |-> Len(data)])

\* _get_cache_file_path makes the directory of the symbol (line 56);
\* _is_cache_valid comes to it when the metadata holds the key (line 85)
DirsAfterRead(symbol, trade_date) ==
    IF _get_metadata_key(symbol, trade_date) \in DOMAIN intraday_metadata
    THEN intraday_dirs \cup {symbol}
    ELSE intraday_dirs

get_intraday_data(symbol, trade_date) ==
    IF ~Intraday_is_cache_valid(symbol, trade_date) THEN None
    ELSE IF <<symbol, trade_date>> \notin DOMAIN intraday_files THEN None
    ELSE SortDescending(intraday_files[<<symbol, trade_date>>])

\* mutant of ApiTradeDate: the API is taken to serve today's ticks all day
ApiTradeDate_is_today == Today

\* the trading day the provider's API serves at the moment
ApiTradeDate == IF Hour(now) < api_update_hour THEN Today - 1 ELSE Today

\* mutant of DefaultTradeDate: the hour of the update still counts as before
\* it (<= for <)
DefaultTradeDate_update_hour_is_before ==
    IF Hour(now) <= default_update_hour THEN Today - 1 ELSE Today

\* the trade_date of a call without one (lines 56-65)
DefaultTradeDate == IF Hour(now) < default_update_hour THEN Today - 1 ELSE Today

\* mutant of api_failure_fallback: the failure is not caught
api_failure_fallback_raises(symbol, trade_date) == Raised

\* what get_intraday_trades returns when the request raised or the answer
\* was empty: the cache is tried once more (lines 106-113, 142-175)
api_failure_fallback(symbol, trade_date) == get_intraday_data(symbol, trade_date)

\* MairuiDataProvider.get_intraday_trades(symbol, date_arg)
get_intraday_trades(raw_symbol, date_arg) ==
    LET trade_date == IF date_arg = NoDate THEN DefaultTradeDate ELSE date_arg
        symbol == _format_symbol(raw_symbol)
        cached_data == get_intraday_data(symbol, trade_date)
    IN /\ last_trades_call' =
              [op |-> "get", sym |-> symbol, arg |-> date_arg, day |-> trade_date]
       /\ UNCHANGED <<now, licence>>
       /\ IF cached_data # None
          THEN /\ trades' = cached_data
               /\ requested' = FALSE
               /\ api_data' = None
               /\ saved' = FALSE
               /\ UNCHANGED <<intraday_files, intraday_metadata>>
               /\ intraday_dirs' = DirsAfterRead(symbol, trade_date)
          ELSE IF ~licence
          THEN /\ trades' = None
               /\ requested' = FALSE
               /\ api_data' = None
               /\ saved' = FALSE
               /\ UNCHANGED <<intraday_files, intraday_metadata>>
               /\ intraday_dirs' = DirsAfterRead(symbol, trade_date)
          ELSE IF trade_date = ApiTradeDate
          THEN \E data \in ApiResponse \cup {ApiError} :
                   /\ requested' = TRUE
                   /\ api_data' = data
                   /\ IF data = ApiError \/ data = <<>>
                      THEN /\ trades' = api_failure_fallback(symbol, trade_date)
                           /\ saved' = FALSE
                           /\ UNCHANGED <<intraday_files, intraday_metadata>>
                           /\ intraday_dirs' = DirsAfterRead(symbol, trade_date)
                      ELSE /\ save_intraday_data(symbol, trade_date, SortAscending(data))
                           /\ saved' = TRUE
                           /\ trades' = SortAscending(data)
          ELSE /\ trades' = get_intraday_data(symbol, trade_date)
               /\ requested' = FALSE
               /\ api_data' = None
               /\ saved' = FALSE
               /\ UNCHANGED <<intraday_files, intraday_metadata>>
               /\ intraday_dirs' = DirsAfterRead(symbol, trade_date)

\* mutant of get_historical_trades: the cache is read under the symbol as
\* passed, market prefix included
get_historical_trades_raw_symbol(raw_symbol, trade_date) ==
    /\ last_trades_call' =
           [op |-> "hist", sym |-> _format_symbol(raw_symbol),
            arg |-> trade_date, day |-> trade_date]
    /\ trades' = get_intraday_data(raw_symbol, trade_date)
    /\ intraday_dirs' = DirsAfterRead(raw_symbol, trade_date)
    /\ requested' = FALSE
    /\ api_data' = None
    /\ saved' = FALSE
    /\ UNCHANGED <<now, licence, intraday_files, intraday_metadata>>

\* MairuiDataProvider.get_historical_trades(symbol, trade_date)
get_historical_trades(raw_symbol, trade_date) ==
    LET symbol == _format_symbol(raw_symbol)
        cached_data == get_intraday_data(symbol, trade_date)
    IN /\ last_trades_call' =
              [op |-> "hist", sym |-> symbol, arg |-> trade_date, day |-> trade_date]
       /\ trades' = cached_data
       /\ intraday_dirs' = DirsAfterRead(symbol, trade_date)
       /\ requested' = FALSE
       /\ api_data' = None
       /\ saved' = FALSE
       /\ UNCHANGED <<now, licence, intraday_files, intraday_metadata>>

\* IntradayCacheManager.clear_cache(symbol, trade_date), either or both None
Intraday_clear_cache(symbol, trade_date) ==
    LET cleared(key) ==
            IF symbol # NoSymbol /\ trade_date # NoDate THEN key = <<symbol, trade_date>>
            ELSE IF symbol # NoSymbol THEN key[1] = symbol
            ELSE TRUE
    IN /\ last_trades_call' =
              [op |-> "clear", sym |-> symbol, arg |-> trade_date, day |-> trade_date]
       /\ intraday_files' =
              [key \in {k \in DOMAIN intraday_files : ~cleared(k)} |-> intraday_files[key]]
       /\ intraday_metadata' =
              [key \in {k \in DOMAIN intraday_metadata : ~cleared(k)} |-> intraday_metadata[key]]
       /\ intraday_dirs' =
              IF symbol # NoSymbol /\ trade_date # NoDate THEN intraday_dirs \cup {symbol}
              ELSE IF symbol # NoSymbol THEN intraday_dirs \ {symbol}
              ELSE {}
       /\ requested' = FALSE
       /\ api_data' = None
       /\ saved' = FALSE
       /\ trades' = None
       /\ UNCHANGED <<now, licence>>

\* mutant of cleanup_old_data: the day of the cutoff itself is removed as well
\* (<= for <)
cleanup_old_data_removes_cutoff_day(days_to_keep) ==
    LET cutoff_date == Today - days_to_keep
        old == {key \in DOMAIN intraday_metadata :
                    intraday_metadata[key].trade_date <= cutoff_date}
        unlinked == {<<intraday_metadata[key].symbol, intraday_metadata[key].trade_date>> :
                        key \in old}
    IN /\ last_trades_call' =
              [op |-> "cleanup", sym |-> NoSymbol, arg |-> days_to_keep, day |-> NoDate]
       /\ intraday_files' =
              [key \in DOMAIN intraday_files \ unlinked |-> intraday_files[key]]
       /\ intraday_metadata' =
              [key \in DOMAIN intraday_metadata \ old |-> intraday_metadata[key]]
       /\ intraday_dirs' =
              {symbol \in intraday_dirs \cup {key[1] : key \in unlinked} :
                  \E key \in DOMAIN intraday_files \ unlinked : key[1] = symbol}
       /\ cleaned_count' = Cardinality(old)
       /\ requested' = FALSE
       /\ api_data' = None
       /\ saved' = FALSE
       /\ trades' = None
       /\ UNCHANGED <<now, licence>>

\* mutant of cleanup_old_data: the metadata entries are deleted, the tick
\* files stay
cleanup_old_data_keeps_files(days_to_keep) ==
    LET cutoff_date == Today - days_to_keep
        old == {key \in DOMAIN intraday_metadata :
                    intraday_metadata[key].trade_date < cutoff_date}
    IN /\ last_trades_call' =
              [op |-> "cleanup", sym |-> NoSymbol, arg |-> days_to_keep, day |-> NoDate]
       /\ intraday_metadata' =
              [key \in DOMAIN intraday_metadata \ old |-> intraday_metadata[key]]
       /\ cleaned_count' = Cardinality(old)
       /\ requested' = FALSE
       /\ api_data' = None
       /\ saved' = FALSE
       /\ trades' = None
       /\ UNCHANGED <<now, licence, intraday_files, intraday_dirs>>

\* IntradayCacheManager.cleanup_old_data(days_to_keep): the entries of the
\* metadata older than the cutoff lose their file and are deleted, then the
\* directories left empty are removed
cleanup_old_data(days_to_keep) ==
    LET cutoff_date == Today - days_to_keep
        old == {key \in DOMAIN intraday_metadata :
                    intraday_metadata[key].trade_date < cutoff_date}
        unlinked == {<<intraday_metadata[key].symbol, intraday_metadata[key].trade_date>> :
                        key \in old}
    IN /\ last_trades_call' =
              [op |-> "cleanup", sym |-> NoSymbol, arg |-> days_to_keep, day |-> NoDate]
       /\ intraday_files' =
              [key \in DOMAIN intraday_files \ unlinked |-> intraday_files[key]]
       /\ intraday_metadata' =
              [key \in DOMAIN intraday_metadata \ old |-> intraday_metadata[key]]
       /\ intraday_dirs' =
              {symbol \in intraday_dirs \cup {key[1] : key \in unlinked} :
                  \E key \in DOMAIN intraday_files \ unlinked : key[1] = symbol}
       /\ cleaned_count' = Cardinality(old)
       /\ requested' = FALSE
       /\ api_data' = None
       /\ saved' = FALSE
       /\ trades' = None
       /\ UNCHANGED <<now, licence>>

\* dates.sort(reverse=True)
RECURSIVE SortReverse(_)
SortReverse(S) ==
    IF S = {} THEN <<>> ELSE <<SetMax(S)>> \o SortReverse(S \ {SetMax(S)})

\* IntradayCacheManager.get_available_dates(symbol): the days of the parquet
\* files in the directory of the symbol, newest first
get_available_dates(symbol) ==
    IF symbol \notin intraday_dirs THEN <<>>
    ELSE SortReverse({key[2] : key \in {k \in DOMAIN intraday_files : k[1] = symbol}})

\* IntradayCacheManager.save_intraday_data as its callers see it: nothing is
\* saved of data that is None or empty (lines 121-123)
IntradayCacheManager_save_intraday_data(symbol, trade_date, data) ==
    /\ last_trades_call' =
           [op |-> "save", sym |-> symbol, arg |-> trade_date, day |-> trade_date]
    /\ IF data = None \/ data = <<>>
       THEN /\ saved' = FALSE
            /\ UNCHANGED <<intraday_files, intraday_metadata, intraday_dirs>>
       ELSE /\ saved' = TRUE
            /\ save_intraday_data(symbol, trade_date, data)
    /\ requested' = FALSE
    /\ api_data' = None
    /\ trades' = None
    /\ UNCHANGED <<now, licence>>

\* IntradayCacheManager.get_intraday_data as its callers see it
IntradayCacheManager_get_intraday_data(symbol, trade_date) ==
    /\ last_trades_call' =
           [op |-> "read", sym |-> symbol, arg |-> trade_date, day |-> trade_date]
    /\ trades' = get_intraday_data(symbol, trade_date)
    /\ intraday_dirs' = DirsAfterRead(symbol, trade_date)
    /\ requested' = FALSE
    /\ api_data' = None
    /\ saved' = FALSE
    /\ UNCHANGED <<now, licence, intraday_files, intraday_metadata>>

\* the hours of the day at which the dashboard is used: before the update,
\* in the hour of the update, after it
CallHours == {data_update_hour - 1, data_update_hour, data_update_hour + 1}

\* the wall clock moves on to a later hour of use, at most a day ahead, up
\* to the last hour before the update of day MaxTradeDay + 1
TradesTick ==
    /\ \E t \in (now + 1)..(now + HoursPerDay) :
           /\ Hour(t) \in CallHours
           /\ t < (MaxTradeDay + 1) * HoursPerDay + data_update_hour
           /\ now' = t
    /\ UNCHANGED <<intraday_files, intraday_metadata, intraday_dirs, licence,
                   last_trades_call, requested, api_data, saved, trades>>

TradesIdle == last_trades_call = NoTradesCall

ForgetTrades ==
    /\ ~TradesIdle
    /\ last_trades_call' = NoTradesCall
    /\ requested' = FALSE
    /\ api_data' = None
    /\ saved' = FALSE
    /\ trades' = None
    /\ cleaned_count' = 0
    /\ UNCHANGED <<now, intraday_files, intraday_metadata, intraday_dirs, licence>>
    /\ UNCHANGED <<rangevars, facadevars, managervars, requestvars>>

GetTrades ==
    /\ TradesIdle
    /\ \E symbol \in ProviderSymbols, d \in TradeDays \cup {NoDate} :
           get_intraday_trades(symbol, d)
    /\ UNCHANGED <<rangevars, facadevars, managervars, requestvars, cleaned_count>>

\* the days an entry can be stored under: the days asked for by date, the
\* day before the first and the day after the last
StoredDays == (-1)..(MaxTradeDay + 1)

GetHistorical ==
    /\ TradesIdle
    /\ \E symbol \in ProviderSymbols, d \in StoredDays :
           get_historical_trades(symbol, d)
    /\ UNCHANGED <<rangevars, facadevars, managervars, requestvars, cleaned_count>>

ClearTradesDay ==
    /\ TradesIdle
    /\ \E symbol \in Symbols, d \in TradeDays : Intraday_clear_cache(symbol, d)
    /\ UNCHANGED <<rangevars, facadevars, managervars, requestvars, cleaned_count>>

ClearTradesSymbol ==
    /\ TradesIdle
    /\ \E symbol \in Symbols : Intraday_clear_cache(symbol, NoDate)
    /\ UNCHANGED <<rangevars, facadevars, managervars, requestvars, cleaned_count>>

ClearTradesAll ==
    /\ TradesIdle
    /\ Intraday_clear_cache(NoSymbol, NoDate)
    /\ UNCHANGED <<rangevars, facadevars, managervars, requestvars, cleaned_count>>

TickTrades == TradesIdle /\ TradesTick /\ UNCHANGED <<rangevars, facadevars, managervars, requestvars, cleaned_count>>

\* the provider is constructed with or without a licence
TradesInit == InitStores /\ licence \in BOOLEAN

TradesNext ==
    \/ GetTrades
    \/ GetHistorical
    \/ ClearTradesDay
    \/ ClearTradesSymbol
    \/ ClearTradesAll
    \/ TickTrades
    \/ ForgetTrades

TradesSpec == TradesInit /\ [][TradesNext]_vars

\* ---- range store with two symbols -------------------------------------------
\* Two symbols are cached side by side; the fetch function answers each gap
\* with at most one bar, all bars with the same payload.
PairSymbols == {"A", "B"}

PairFetcher == {r \in Response : Len(r) <= 1 /\ \A j \in DOMAIN r : r[j].val = 1}

GetRangePair ==
    /\ Idle
    /\ \E s \in PairSymbols, a \in Dates, b \in Dates :
           get_data_with_cache(s, a, b, PairFetcher)
    /\ UNCHANGED <<dayvars, facadevars, managervars, requestvars>>

ClearSymbolPair ==
    /\ Idle
    /\ \E s \in PairSymbols : clear_cache(s)
    /\ UNCHANGED <<dayvars, facadevars, managervars, requestvars>>

PairNext == GetRangePair \/ ClearSymbolPair \/ ClearAll \/ Forget

PairSpec == Init /\ [][PairNext]_vars

\* ---- the facade: DataManager -------------------------------------------------
\* Callers of the facade pass a bare stock code or one with a market suffix.
FacadeSymbols == {"600519", "600519.SH"}

\* market_type arguments: None (detect the market from the code) or 'SH'
MarketTypes == {NoSymbol, "SH"}

providers == {"yfinance", "tushare", "akshare"}

default_provider == "tushare"

\* provider arguments: None, or a provider that is not registered
ProviderArgs == {NoSymbol, "other"}

\* a cell pd.to_numeric(errors='coerce') turns into NaN
NaN == 0

\* '.' in symbol
HasDot(symbol) == symbol \in {"600519.SH"}

\* symbol[0]
FirstChar(symbol) == IF symbol \in {"600519", "600519.SH"} THEN "6" ELSE "?"

DataManager_format_symbol(symbol, market_type) ==
    IF HasDot(symbol) THEN symbol
    ELSE IF market_type = "SH" THEN symbol \o ".SH"
    ELSE IF market_type = "SZ" THEN symbol \o ".SZ"
    ELSE IF FirstChar(symbol) = "6" THEN symbol \o ".SH"
    ELSE IF FirstChar(symbol) \in {"0", "3"} THEN symbol \o ".SZ"
    ELSE IF FirstChar(symbol) \in {"4", "8"} THEN symbol \o ".BJ"
    ELSE symbol \o ".SZ"

\* rows with a NaN cell are dropped
_standardize_data(data) == SelectSeq(data, LAMBDA r : r.val # NaN)

\* what a provider function returns: at most one row, its cell numeric or not,
\* or nothing (the provider functions catch their own exceptions)
ProviderData == UNION {[1..n -> [date : Dates, val : {NaN, 1}]] : n \in 0..1}

_fetch_data_directly == {_standardize_data(data) : data \in ProviderData}

get_stock_data(symbol, start_date, end_date, provider_arg, market_type, use_cache) ==
    LET provider == IF provider_arg = NoSymbol THEN default_provider ELSE provider_arg
        symbol_with_suffix == DataManager_format_symbol(symbol, market_type)
        call == [NoFacadeCall EXCEPT !.op = "get_stock_data", !.sym = symbol,
                                     !.start = start_date, !.end = end_date,
                                     !.provider = provider_arg,
                                     !.market_type = market_type,
                                     !.use_cache = use_cache]
    IN  IF provider \notin providers
        THEN /\ facade' = call
             /\ UNCHANGED <<now, rangevars>>
        ELSE IF use_cache
        THEN /\ get_data_with_cache(symbol_with_suffix, start_date, end_date,
                                    _fetch_data_directly)
             /\ facade' = [call EXCEPT !.data =
                              IF result' \in {None, Raised, <<>>}
                              THEN <<>>
                              ELSE _standardize_data(result')]
        ELSE /\ \E data \in _fetch_data_directly : facade' = [call EXCEPT !.data = data]
             /\ UNCHANGED <<now, rangevars>>

DataManager_clear_cache(symbol) ==
    /\ clear_cache(symbol)
    /\ facade' = [NoFacadeCall EXCEPT !.op = "clear_cache", !.sym = symbol]

get_cache_info(symbol) ==
    /\ facade' = [facade EXCEPT
                     !.queried = TRUE,
                     !.info_for = symbol,
                     !.info = IF symbol # NoSymbol
                              THEN IF symbol \in DOMAIN metadata
                                   THEN metadata[symbol]
                                   ELSE EmptyDict
                              ELSE [total_cached_symbols |-> Cardinality(DOMAIN metadata),
                                    metadata |-> metadata]]
    /\ UNCHANGED <<now, rangevars>>

\* The caller of the facade: a session is an optional clear_cache, then a
\* get_stock_data, with get_cache_info at any point; the caller drops what it
\* has seen (FacadeForget) before the next session.
FacadeIdle == facade.op = "idle"

FacadeGet ==
    /\ facade.op \in {"idle", "clear_cache"}
    /\ \E symbol \in FacadeSymbols, start_date \in Dates, end_date \in Dates,
          provider \in ProviderArgs, market_type \in MarketTypes,
          use_cache \in BOOLEAN :
           get_stock_data(symbol, start_date, end_date, provider, market_type, use_cache)
    /\ UNCHANGED <<dayvars, managervars, requestvars>>

FacadeClear ==
    /\ FacadeIdle
    /\ \E symbol \in FacadeSymbols \cup {NoSymbol} : DataManager_clear_cache(symbol)
    /\ UNCHANGED <<dayvars, managervars, requestvars>>

FacadeInfo ==
    /\ ~facade.queried
    /\ \E symbol \in FacadeSymbols \cup {NoSymbol} : get_cache_info(symbol)
    /\ UNCHANGED <<dayvars, managervars, requestvars>>

FacadeForget ==
    /\ ~FacadeIdle \/ facade.queried
    /\ facade' = NoFacadeCall
    /\ last' = NoCall
    /\ loaded' = None
    /\ calls' = <<>>
    /\ responses' = <<>>
    /\ result' = <<>>
    /\ UNCHANGED <<now, files, metadata, asked>>
    /\ UNCHANGED <<dayvars, managervars, requestvars>>

FacadeNext == FacadeGet \/ FacadeClear \/ FacadeInfo \/ FacadeForget

FacadeSpec == Init /\ [][FacadeNext]_vars

\* The caller of test_basic_cache.py and test_smart_cache.py at the facade:
\* it keeps the data of a get_stock_data and calls get_stock_data again for
\* the same symbol, with the default provider and market type, through the
\* cache.
FacadeGetAgain ==
    /\ facade.op = "get_stock_data"
    /\ \E start_date \in Dates, end_date \in Dates :
           get_stock_data(facade.sym, start_date, end_date, NoSymbol, NoSymbol, TRUE)
    /\ UNCHANGED <<dayvars, managervars, requestvars>>

FacadeTwiceNext == FacadeNext \/ FacadeGetAgain

FacadeTwiceSpec == Init /\ [][FacadeTwiceNext]_vars

\* ---- range store on a damaged disk -----------------------------------------
\* Between two calls the files of the range store are damaged from outside:
\* a series file is lost or made unreadable, the last_update of a metadata
\* entry is lost or garbled, or the metadata document no longer parses and
\* _load_metadata gives {} (lines 37-39).  The manager works on what it
\* loads from the damaged files.
LoseSeriesFile ==
    /\ Idle
    /\ \E s \in DOMAIN files : files' = DictDel(files, s)
    /\ UNCHANGED <<now, metadata, asked, last, loaded, calls, responses, result>>
    /\ UNCHANGED <<dayvars, facadevars, managervars, requestvars>>

GarbleSeriesFile ==
    /\ Idle
    /\ \E s \in DOMAIN files :
           /\ files[s] # Unreadable
           /\ files' = DictSet(files, s, Unreadable)
    /\ UNCHANGED <<now, metadata, asked, last, loaded, calls, responses, result>>
    /\ UNCHANGED <<dayvars, facadevars, managervars, requestvars>>

GarbleMetadataEntry ==
    /\ Idle
    /\ \E s \in DOMAIN metadata :
           /\ metadata[s].last_update # Unparsable
           /\ metadata' = [metadata EXCEPT ![s].last_update = Unparsable]
    /\ UNCHANGED <<now, files, asked, last, loaded, calls, responses, result>>
    /\ UNCHANGED <<dayvars, facadevars, managervars, requestvars>>

GarbleMetadataDocument ==
    /\ Idle
    /\ metadata # EmptyDict
    /\ metadata' = EmptyDict
    /\ UNCHANGED <<now, files, asked, last, loaded, calls, responses, result>>
    /\ UNCHANGED <<dayvars, facadevars, managervars, requestvars>>

DiskNext ==
    \/ Next
    \/ LoseSeriesFile
    \/ GarbleSeriesFile
    \/ GarbleMetadataEntry
    \/ GarbleMetadataDocument

DiskSpec == Init /\ [][DiskNext]_vars

\* ---- both stores ------------------------------------------------------------
\* The two stores share the clock and nothing else.  A run of the dashboard
\* with a configured provider, working with one store at a time: the range
\* store at the instants of its clock while the day store is empty and at
\* rest, the day store while the range store is empty and at rest.
RangeTurn ==
    /\ intraday_files = EmptyDict
    /\ intraday_metadata = EmptyDict
    /\ TradesIdle
    /\ now % (TickDays * HoursPerDay) = 0

TradesTurn ==
    /\ files = EmptyDict
    /\ metadata = EmptyDict
    /\ asked = [s \in CacheKeys |-> {}]
    /\ Idle

StoresInit == InitStores /\ licence = TRUE

StoresNext == (RangeTurn /\ Next) \/ (TradesTurn /\ TradesNext)

StoresSpec == StoresInit /\ [][StoresNext]_vars

\* ---- range store, step by step ------------------------------------------------
\* A call of a SmartCacheManager instance is a sequence of steps on the cache
\* directory: __init__ loads cache_metadata.json into self.metadata; a get
\* reads the series file and calls the fetch function, then writes the
\* series file (to_csv), then puts the entry into self.metadata and writes
\* the whole of self.metadata to cache_metadata.json; a clear unlinks the
\* series file, then deletes the entry from self.metadata and writes the
\* whole of it.  `files` and `metadata` are the directory; the steps of
\* different instances interleave.
Instance_is_cache_valid(self_metadata, s) ==
    IF s \notin DOMAIN self_metadata THEN FALSE
    ELSE DaysSince(self_metadata[s].last_update) <= cache_expire_days

Instance_get_cached_data(self_metadata, s) ==
    IF ~Instance_is_cache_valid(self_metadata, s) THEN None
    ELSE IF s \notin DOMAIN files THEN None
    ELSE IF files[s] = Unreadable THEN None
    ELSE files[s]

Instance_get_missing_date_ranges(cached_data, start_date, end_date) ==
    IF cached_data = None \/ cached_data = <<>>
    THEN << <<start_date, end_date>> >>
    ELSE (IF start_date < IndexMin(cached_data)
          THEN << <<start_date, IndexMin(cached_data) - 1>> >> ELSE <<>>)
         \o
         (IF end_date > IndexMax(cached_data)
          THEN << <<IndexMax(cached_data) + 1, end_date>> >> ELSE <<>>)

\* SmartCacheManager.__init__
Instance_init(m) ==
    /\ managers[m].pc = "none"
    /\ managers' = [managers EXCEPT ![m] =
                       [NoManager EXCEPT !.pc = "ready", !.metadata = metadata]]
    /\ UNCHANGED <<now, files, metadata>>

\* get_data_with_cache up to the call of _save_data_to_cache (lines 163-203):
\* the call returns here unless the fetch function brought new data
Instance_get_data_with_cache(m, s, start_date, end_date, data_fetcher) ==
    LET self_metadata == managers[m].metadata
        raises == s \in DOMAIN self_metadata /\ self_metadata[s].last_update = Unparsable
        cached_data == Instance_get_cached_data(self_metadata, s)
        covered == /\ cached_data # None
                   /\ cached_data # <<>>
                   /\ IndexMin(cached_data) <= start_date
                   /\ IndexMax(cached_data) >= end_date
        missing_ranges == Instance_get_missing_date_ranges(cached_data, start_date, end_date)
    IN /\ managers[m].pc = "ready"
       /\ UNCHANGED <<now, files, metadata>>
       /\ IF raises \/ covered \/ missing_ranges = <<>>
          THEN UNCHANGED managers
          ELSE \E resps \in [DOMAIN missing_ranges -> data_fetcher] :
               LET new_data_list == SelectSeq(resps, LAMBDA r : r # <<>>)
                   updated_data == _merge_data_ranges(cached_data, Concat(new_data_list))
               IN IF new_data_list # <<>>
                  THEN managers' = [managers EXCEPT ![m].pc = "to_csv",
                                                    ![m].sym = s,
                                                    ![m].data = updated_data]
                  ELSE UNCHANGED managers

\* _save_data_to_cache, line 89: data.to_csv(cache_file)
Instance_to_csv(m) ==
    /\ managers[m].pc = "to_csv"
    /\ files' = DictSet(files, managers[m].sym, managers[m].data)
    /\ managers' = [managers EXCEPT ![m].pc = "save_metadata"]
    /\ UNCHANGED <<now, metadata>>

\* _save_data_to_cache, lines 92-100: the entry, then _save_metadata
Instance_save_metadata(m) ==
    /\ managers[m].pc = "save_metadata"
    /\ LET self_metadata == DictSet(managers[m].metadata, managers[m].sym,
                                    MetaEntry(now, managers[m].data))
       IN /\ metadata' = self_metadata
          /\ managers' = [managers EXCEPT ![m] =
                             [NoManager EXCEPT !.pc = "ready", !.metadata = self_metadata]]
    /\ UNCHANGED <<now, files>>

\* clear_cache, lines 220-231: the series files are unlinked
Instance_clear_cache(m, s) ==
    /\ managers[m].pc = "ready"
    /\ files' = (IF s # NoSymbol THEN DictDel(files, s) ELSE EmptyDict)
    /\ managers' = [managers EXCEPT ![m].pc = "clear_metadata", ![m].sym = s]
    /\ UNCHANGED <<now, metadata>>

\* clear_cache, lines 225-235: the entries are deleted, then _save_metadata
Instance_clear_metadata(m) ==
    /\ managers[m].pc = "clear_metadata"
    /\ LET self_metadata == IF managers[m].sym # NoSymbol
                            THEN DictDel(managers[m].metadata, managers[m].sym)
                            ELSE EmptyDict
       IN /\ metadata' = self_metadata
          /\ managers' = [managers EXCEPT ![m] =
                             [NoManager EXCEPT !.pc = "ready", !.metadata = self_metadata]]
    /\ UNCHANGED <<now, files>>

\* the instance is dropped when the call that created it has returned
Instance_drop(m) ==
    /\ managers[m].pc = "ready"
    /\ managers' = [managers EXCEPT ![m] = NoManager]
    /\ UNCHANGED <<now, files, metadata>>

\* what the step-by-step actions leave alone
StepFrame ==
    UNCHANGED <<asked, last, loaded, calls, responses, result, dayvars, facadevars,
                requestvars>>

\* Two call streams, one per symbol, each through instances of its own: the
\* dashboard constructs a DataManager, and with it a SmartCacheManager, in
\* every load function.
ManagerSymbol == [m \in Managers |-> IF m = "m1" THEN "A" ELSE "B"]

ManagerInit == (\E m \in Managers : Instance_init(m)) /\ StepFrame

ManagerGet ==
    /\ \E m \in Managers, a \in Dates, b \in Dates :
           Instance_get_data_with_cache(m, ManagerSymbol[m], a, b, PairFetcher)
    /\ StepFrame

ManagerToCsv == (\E m \in Managers : Instance_to_csv(m)) /\ StepFrame

ManagerSaveMetadata == (\E m \in Managers : Instance_save_metadata(m)) /\ StepFrame

ManagerClear ==
    /\ \E m \in Managers : Instance_clear_cache(m, ManagerSymbol[m])
    /\ StepFrame

ManagerClearMetadata == (\E m \in Managers : Instance_clear_metadata(m)) /\ StepFrame

ManagerDrop == (\E m \in Managers : Instance_drop(m)) /\ StepFrame

ManagersNext ==
    \/ ManagerInit
    \/ ManagerGet
    \/ ManagerToCsv
    \/ ManagerSaveMetadata
    \/ ManagerClear
    \/ ManagerClearMetadata
    \/ ManagerDrop

ManagersSpec == Init /\ [][ManagersNext]_vars

\* ---- range store: one instance, step by step, on a directory that ages -------
\* One SmartCacheManager instance at a time works on symbol "A".  The process
\* may die between two steps of a call (the instance is gone, the directory
\* stays as the steps done so far left it), the wall clock moves on, and a
\* series file may become unreadable, in which case _get_cached_data gives
\* None (lines 81-83).
OneManager == "m1"

\* the process dies inside _save_data_to_cache
Instance_crash(m) ==
    /\ managers[m].pc \in {"to_csv", "save_metadata"}
    /\ managers' = [managers EXCEPT ![m] = NoManager]
    /\ UNCHANGED <<now, files, metadata>>

StepInit == Instance_init(OneManager) /\ StepFrame

StepGet ==
    /\ \E a \in Dates, b \in Dates :
           Instance_get_data_with_cache(OneManager, "A", a, b, PairFetcher)
    /\ StepFrame

StepToCsv == Instance_to_csv(OneManager) /\ StepFrame

StepSaveMetadata == Instance_save_metadata(OneManager) /\ StepFrame

StepDrop == Instance_drop(OneManager) /\ StepFrame

StepCrash == Instance_crash(OneManager) /\ StepFrame

\* the series file is damaged between two calls, not inside one
StepGarble == managers[OneManager].pc \in {"none", "ready"} /\ GarbleSeriesFile

StepsNext ==
    \/ StepInit
    \/ StepGet
    \/ StepToCsv
    \/ StepSaveMetadata
    \/ StepDrop
    \/ StepCrash
    \/ TickIdle
    \/ StepGarble

StepsSpec == Init /\ [][StepsNext]_vars

\* ---- range store: a clock that passes the expiry by hours ---------------------
\* _is_cache_valid compares (datetime.now() - last_update).days, whole days,
\* with cache_expire_days (line 66).  Here the calls happen at instants around
\* the expiry of an entry: right at it, an hour past it, a day past it.
ExpiryHours == cache_expire_days * HoursPerDay

ExpiryInstants ==
    {0, ExpiryHours, ExpiryHours + 1, ExpiryHours + HoursPerDay}

ExpiryGet ==
    /\ Idle
    /\ \E s \in Symbols, a \in Dates, b \in Dates :
           get_data_with_cache(s, a, b, PairFetcher)
    /\ UNCHANGED <<dayvars, facadevars, managervars, requestvars>>

ExpiryTick ==
    /\ Idle
    /\ \E t \in ExpiryInstants : t > now /\ now' = t
    /\ UNCHANGED <<files, metadata, asked, last, loaded, calls, responses, result>>
    /\ UNCHANGED <<dayvars, facadevars, managervars, requestvars>>

ExpiryNext == ExpiryGet \/ ExpiryTick \/ Forget

ExpirySpec == Init /\ [][ExpiryNext]_vars

\* ---- day store: get_intraday_trades, request and response ----------------------
\* A get_intraday_trades that goes to the API is two steps: up to
\* requests.get (lines 56-101) it resolves trade_date, misses the cache and
\* finds trade_date equal to the day the API serves; from the response on
\* (lines 104-148) it sorts and saves the ticks under that trade_date.  The
\* wall clock moves on while the request is out (timeout, line 38), and the
\* API answers with the ticks of the day it serves when it answers.
Request_send(raw_symbol, date_arg) ==
    LET trade_date == IF date_arg = NoDate THEN DefaultTradeDate ELSE date_arg
        symbol == _format_symbol(raw_symbol)
    IN /\ TradesIdle
       /\ pending.pc = "idle"
       /\ get_intraday_data(symbol, trade_date) = None
       /\ licence
       /\ trade_date = ApiTradeDate
       /\ pending' = [pc |-> "requesting", sym |-> symbol, day |-> trade_date,
                      api_day |-> NoDate]
       /\ intraday_dirs' = DirsAfterRead(symbol, trade_date)
       /\ UNCHANGED <<now, intraday_files, intraday_metadata, cleaned_count, licence,
                      last_trades_call, requested, api_data, saved, trades>>

Request_response ==
    /\ pending.pc = "requesting"
    /\ pending' = [pending EXCEPT !.pc = "done", !.api_day = ApiTradeDate]
    /\ last_trades_call' =
           [op |-> "get", sym |-> pending.sym, arg |-> pending.day, day |-> pending.day]
    /\ requested' = TRUE
    /\ \E data \in ApiResponse \cup {ApiError} :
           /\ api_data' = data
           /\ IF data = ApiError \/ data = <<>>
              THEN /\ trades' = api_failure_fallback(pending.sym, pending.day)
                   /\ saved' = FALSE
                   /\ UNCHANGED <<intraday_files, intraday_metadata>>
                   /\ intraday_dirs' = DirsAfterRead(pending.sym, pending.day)
              ELSE /\ save_intraday_data(pending.sym, pending.day, SortAscending(data))
                   /\ saved' = TRUE
                   /\ trades' = SortAscending(data)
    /\ UNCHANGED <<now, cleaned_count, licence>>

RequestSend ==
    /\ \E symbol \in ProviderSymbols, d \in TradeDays \cup {NoDate} :
           Request_send(symbol, d)
    /\ UNCHANGED <<rangevars, facadevars, managervars>>

\* the clock passes into the next hour while the request is out
RequestWait ==
    /\ pending.pc = "requesting"
    /\ Hour(now + 1) \in CallHours
    /\ now + 1 < (MaxTradeDay + 1) * HoursPerDay + data_update_hour
    /\ now' = now + 1
    /\ UNCHANGED <<rangevars, dayvars, facadevars, managervars, requestvars>>

RequestResponse == Request_response /\ UNCHANGED <<rangevars, facadevars, managervars>>

\* the caller drops what it knows of the call that has returned
RequestForget ==
    /\ pending.pc = "done"
    /\ pending' = NoPending
    /\ last_trades_call' = NoTradesCall
    /\ requested' = FALSE
    /\ api_data' = None
    /\ saved' = FALSE
    /\ trades' = None
    /\ UNCHANGED <<now, intraday_files, intraday_metadata, intraday_dirs,
                   cleaned_count, licence>>
    /\ UNCHANGED <<rangevars, facadevars, managervars>>

RequestIdleTick == pending.pc = "idle" /\ TickTrades

RequestClear == pending.pc = "idle" /\ ClearTradesDay

RequestNext ==
    \/ RequestSend
    \/ RequestWait
    \/ RequestResponse
    \/ RequestForget
    \/ RequestIdleTick
    \/ RequestClear

RequestSpec == StoresInit /\ [][RequestNext]_vars

\* ---- day store: one IntradayCacheManager, called directly ---------------------
\* Two symbols, the trading days 0..MaxTradeDay; the clock moves by whole
\* days, up to the day after the last trading day.
DaySymbols == {"A", "B"}

\* the frames handed to save_intraday_data: None, an empty frame, one tick
DayData == {None, <<>>, << [time |-> 1, val |-> 1] >>}

\* the days_to_keep of a cleanup
KeepDays == 0..(MaxTradeDay + 1)

DaySave ==
    /\ TradesIdle
    /\ \E symbol \in DaySymbols, d \in TradeDays, data \in DayData :
           IntradayCacheManager_save_intraday_data(symbol, d, data)
    /\ UNCHANGED <<rangevars, facadevars, managervars, requestvars, cleaned_count>>

DayRead ==
    /\ TradesIdle
    /\ \E symbol \in DaySymbols, d \in TradeDays :
           IntradayCacheManager_get_intraday_data(symbol, d)
    /\ UNCHANGED <<rangevars, facadevars, managervars, requestvars, cleaned_count>>

DayClear ==
    /\ TradesIdle
    /\ \E symbol \in DaySymbols \cup {NoSymbol}, d \in TradeDays \cup {NoDate} :
           Intraday_clear_cache(symbol, d)
    /\ UNCHANGED <<rangevars, facadevars, managervars, requestvars, cleaned_count>>

DayCleanup ==
    /\ TradesIdle
    /\ \E days_to_keep \in KeepDays : cleanup_old_data(days_to_keep)
    /\ UNCHANGED <<rangevars, facadevars, managervars, requestvars>>

\* the instants of use: midnight and the update hour of every day, and the
\* midnight after the last day
DayInstants ==
    {d * HoursPerDay + h : d \in TradeDays, h \in {0, data_update_hour}}
        \cup {(MaxTradeDay + 1) * HoursPerDay}

DayTick ==
    /\ TradesIdle
    /\ \E t \in DayInstants : t > now /\ now' = t
    /\ UNCHANGED <<rangevars, dayvars, facadevars, managervars, requestvars>>

DayStoreNext == DaySave \/ DayRead \/ DayClear \/ DayCleanup \/ DayTick \/ ForgetTrades

DayStoreSpec == Init /\ [][DayStoreNext]_vars

\* ==== properties ==========================================================
\* What the properties say of a call is stated on the persisted state
\* directly, not through the operators of the store.

\* the symbol has a metadata entry that is not expired and a series file
HasValidCache(s) ==
    /\ s \in DOMAIN metadata
    /\ s \in DOMAIN files
    /\ (now - metadata[s].last_update) \div 24 <= 7

CacheMin(s) == SetMin({files[s][i].date : i \in DOMAIN files[s]})

CacheMax(s) == SetMax({files[s][i].date : i \in DOMAIN files[s]})

BarsIn(df, a, b) == SelectSeq(df, LAMBDA r : a <= r.date /\ r.date <= b)

RequestCovered(s, a, b) ==
    HasValidCache(s) /\ CacheMin(s) <= a /\ CacheMax(s) >= b

\* this step is the call get_data_with_cache(s, a, b)
IsGet(s, a, b) ==
    Idle /\ last' = [op |-> "get", sym |-> s, start |-> a, end |-> b]

GapsOf(s, a, b) ==
    IF ~HasValidCache(s) THEN << <<a, b>> >>
    ELSE (IF a < CacheMin(s) THEN << <<a, CacheMin(s) - 1>> >> ELSE <<>>)
         \o (IF b > CacheMax(s) THEN << <<CacheMax(s) + 1, b>> >> ELSE <<>>)

\* C2: a get for [start, end], start <= end, that is not fully covered calls
\* fetch once per gap, in order, and for nothing else: [start, min - 1] iff
\* start < min, [max + 1, end] iff end > max, [start, end] iff there is no
\* valid cache; so at most twice, and never for a date in [min, max].
C2_FetchExactlyTheGaps ==
    [][\A s \in Symbols, a \in Dates, b \in Dates :
          (IsGet(s, a, b) /\ a <= b /\ ~RequestCovered(s, a, b)) =>
              /\ calls' = GapsOf(s, a, b)
              /\ Len(responses') = Len(calls')
              /\ Len(calls') \in {1, 2}
              /\ HasValidCache(s) =>
                    \A i \in DOMAIN calls' :
                        calls'[i][2] < CacheMin(s) \/ calls'[i][1] > CacheMax(s)]_vars

\* a get has fetched a left gap and a right gap around the cached series
C2_Witness ==
    /\ last.op = "get"
    /\ last.start <= last.end
    /\ Len(calls) = 2
    /\ calls[1][1] = last.start
    /\ calls[2][2] = last.end

\* C3 (coverage): after get(s, a, b) every date of [a, b] is in the returned
\* bars or was requested from the fetch function during the life of the
\* cached series (and then missing from the response): no date is missing
\* merely because the cached min and max bracket it.
C3_Coverage ==
    (last.op = "get" /\ result # Raised) =>
        \A d \in Dates :
            (last.start <= d /\ d <= last.end) =>
                d \in DatesOf(result) \/ d \in asked[last.sym]

\* the fetch responses of the step hold no bar the series file lacks
NothingNew(s) ==
    \A i \in DOMAIN responses' : \A j \in DOMAIN responses'[i] :
        s \in DOMAIN files /\ responses'[i][j] \in Range(files[s])

\* C4 (idempotence): a get repeated right after the same get, with a fetch
\* function that returns nothing new, returns what the first returned and
\* leaves the metadata (range, record_count, last_update) as the first
\* left it.
C4_Idempotent ==
    [][(Holding /\ last' = last /\ now' = now /\ NothingNew(last.sym)) =>
          (result' = result /\ metadata' = metadata)]_vars

\* the rows of a frame that carry date d
RowsFor(df, d) == SelectSeq(df, LAMBDA r : r.date = d)

\* the last row of a frame that carries date d
LastRowFor(df, d) == RowsFor(df, d)[Len(RowsFor(df, d))]

\* the rows the fetch function returned during the last call, in call order
Fetched ==
    IF Len(responses) = 0 THEN <<>>
    ELSE IF Len(responses) = 1 THEN responses[1]
    ELSE responses[1] \o responses[2]

\* C5 (last write wins): when a get merges fetched rows into the valid cached
\* series, a cached date D that the fetch returned again is persisted as
\* exactly one bar, the last one fetched for D, and every other cached date
\* keeps its bar.
C5_LastWriteWins ==
    (last.op = "get" /\ loaded # None /\ Fetched # <<>>) =>
        \A d \in DatesOf(loaded) :
            RowsFor(files[last.sym], d) =
                IF d \in DatesOf(Fetched) THEN <<LastRowFor(Fetched, d)>>
                ELSE <<LastRowFor(loaded, d)>>

\* a fetch has returned a cached date with another value, next to a cached
\* date it did not return
C5_Witness ==
    /\ last.op = "get"
    /\ loaded # None
    /\ \E d \in DatesOf(loaded) \cap DatesOf(Fetched) :
           LastRowFor(Fetched, d).val # LastRowFor(loaded, d).val
    /\ DatesOf(loaded) \ DatesOf(Fetched) # {}

\* C6: every persisted series is strictly ascending by date (so at most one
\* bar per date), whatever the fetch function returned.
C6_SeriesStrictlyAscending ==
    \A s \in DOMAIN files :
        \A i, j \in DOMAIN files[s] : i < j => files[s][i].date < files[s][j].date

\* C7: a metadata entry records the smallest date, the largest date and the
\* number of bars of the symbol's persisted series, and only a symbol with
\* a persisted series has an entry.
C7_MetadataMatchesSeries ==
    \A s \in DOMAIN metadata :
        /\ s \in DOMAIN files
        /\ metadata[s].start = CacheMin(s)
        /\ metadata[s].end = CacheMax(s)
        /\ metadata[s].record_count = Len(files[s])

\* a get has merged fetched rows on both sides of a cached series and the
\* entry spans more than one date
C7_Witness ==
    /\ last.op = "get"
    /\ Len(calls) = 2
    /\ Fetched # <<>>
    /\ last.sym \in DOMAIN metadata
    /\ metadata[last.sym].start < metadata[last.sym].end

\* C8 (monotonic freshness): the last_update a save writes is never earlier
\* than the last_update it replaces.
C8_LastUpdateMonotonic ==
    [][\A s \in DOMAIN metadata \cap DOMAIN metadata' :
          metadata'[s].last_update >= metadata[s].last_update]_vars

\* a get has merged fetched rows into a cached series some time after the
\* clock started, and stamped the entry with that time
C8_Witness ==
    /\ last.op = "get"
    /\ loaded # None
    /\ Fetched # <<>>
    /\ now > 0
    /\ metadata[last.sym].last_update = now

\* ---- day store -----------------------------------------------------------
\* the trading day the clock resolves to: yesterday before 21:00, else today
TradingDayNow == IF now % 24 < 21 THEN now \div 24 - 1 ELSE now \div 24

HasEntry(s, d) == <<s, d>> \in DOMAIN intraday_metadata

\* the entry of (s, d) is final: d lies strictly before the current trading
\* day, or the entry was written at or after the cutover of d
IsFinal(s, d) ==
    /\ HasEntry(s, d)
    /\ \/ d < TradingDayNow
       \/ intraday_metadata[<<s, d>>].last_update >= d * 24 + 21

\* this step is a get_intraday_trades that resolves to (s, d)
IsGetTrades(s, d) ==
    /\ TradesIdle
    /\ last_trades_call'.op = "get"
    /\ last_trades_call'.sym = s
    /\ last_trades_call'.day = d

EntryUnchanged(s, d) ==
    /\ <<s, d>> \in DOMAIN intraday_files'
    /\ <<s, d>> \in DOMAIN intraday_metadata'
    /\ intraday_files'[<<s, d>>] = intraday_files[<<s, d>>]
    /\ intraday_metadata'[<<s, d>>] = intraday_metadata[<<s, d>>]

\* C9 (day finality): a get_intraday_trades for a (symbol, day) whose entry
\* is final leaves the stored ticks and the entry as they are and does not
\* call save, at whatever clock time and whatever the provider would answer.
C9_DayFinality ==
    [][\A s \in Symbols, d \in (-1)..(MaxTradeDay + 1) :
          (IsGetTrades(s, d) /\ IsFinal(s, d)) =>
              (EntryUnchanged(s, d) /\ ~saved')]_vars

\* a licensed provider is asked again, after the update hour of the day
\* itself and later than the entry was written, for a day it has cached
C9_Witness ==
    /\ last_trades_call.op = "get"
    /\ licence
    /\ HasEntry(last_trades_call.sym, last_trades_call.day)
    /\ last_trades_call.day = now \div 24
    /\ now % 24 >= 21
    /\ intraday_metadata[<<last_trades_call.sym, last_trades_call.day>>].last_update < now
    /\ trades # None

\* the entry of (s, d) was cached on the day after d before the cutover
\* (yesterday's trading day, cached at 20:00) and the cutover of that day
\* has passed
CachedBeforeCutoverNowPassed(s, d) ==
    /\ HasEntry(s, d)
    /\ intraday_metadata[<<s, d>>].last_update \div 24 = d + 1
    /\ intraday_metadata[<<s, d>>].last_update % 24 < 21
    /\ now >= (d + 1) * 24 + 21

\* two frames hold the same rows, each as often
SameRows(a, b) ==
    /\ Len(a) = Len(b)
    /\ \A r \in Range(a) \cup Range(b) :
           Cardinality({i \in DOMAIN a : a[i] = r}) = Cardinality({i \in DOMAIN b : b[i] = r})

\* C10 as stated (Scenario D): the first get_intraday_trades after 21:00 for
\* an entry of yesterday's trading day cached at 20:00 calls the provider
\* and replaces the entry.
C10_RefetchedAfterCutover ==
    [][\A s \in Symbols, d \in (-1)..(MaxTradeDay + 1) :
          (IsGetTrades(s, d) /\ licence /\ CachedBeforeCutoverNowPassed(s, d)) =>
              (requested' /\ saved')]_vars

\* C10 as the code has it: an entry of yesterday's trading day cached before
\* the 21:00 cutover is final as it is; every get_intraday_trades for it
\* after 21:00 returns the cached ticks, calls neither the provider nor
\* save, and leaves the entry unchanged.
C10_ServedFromCacheAfterCutover ==
    [][\A s \in Symbols, d \in (-1)..(MaxTradeDay + 1) :
          (IsGetTrades(s, d) /\ CachedBeforeCutoverNowPassed(s, d)) =>
              /\ ~requested'
              /\ ~saved'
              /\ EntryUnchanged(s, d)
              /\ trades' # None
              /\ SameRows(trades', intraday_files[<<s, d>>])]_vars

\* a licensed provider has answered, after 21:00, a get for the day before,
\* whose entry was cached that same day before 21:00
C10_Witness ==
    /\ last_trades_call.op = "get"
    /\ licence
    /\ CachedBeforeCutoverNowPassed(last_trades_call.sym, last_trades_call.day)
    /\ last_trades_call.day = now \div 24 - 1
    /\ trades # None

\* the days a get_intraday_trades can resolve to
ResolvedDays == (-1)..(MaxTradeDay + 1)

\* C11 (resolve_trading_day): a get_intraday_trades without a day resolves to
\* today - 1 while the hour is before 21 and to today from 21:00 on, and
\* ticks the provider returned are stored under the day the same rule gives
\* at the time of the call.
C11_ResolveTradingDay ==
    [][\A s \in Symbols, d \in ResolvedDays :
          IsGetTrades(s, d) =>
              /\ last_trades_call'.arg = NoDate =>
                    d = (IF now % 24 < 21 THEN now \div 24 - 1 ELSE now \div 24)
              /\ saved' =>
                    /\ d = (IF now % 24 < 21 THEN now \div 24 - 1 ELSE now \div 24)
                    /\ <<s, d>> \in DOMAIN intraday_files'
                    /\ intraday_metadata'[<<s, d>>].last_update = now]_vars

\* a call without a day, made in the hour of the update, has resolved to
\* today and stored the provider's ticks under today
C11_Witness ==
    /\ last_trades_call.op = "get"
    /\ last_trades_call.arg = NoDate
    /\ now % 24 = 21
    /\ last_trades_call.day = now \div 24
    /\ saved

\* C12: a get_intraday_trades for a day other than the provider's current
\* day (older or later) sends no request, saves nothing, leaves the day store
\* as it is and returns the ticks cached for that day, or None when there
\* are none; so a fetch result is stored or returned only for the provider's
\* current day.
C12_FetchOnlyForCurrentDay ==
    [][\A s \in Symbols, d \in ResolvedDays :
          (IsGetTrades(s, d) /\ d # TradingDayNow) =>
              /\ ~requested'
              /\ ~saved'
              /\ intraday_files' = intraday_files
              /\ intraday_metadata' = intraday_metadata
              /\ IF HasEntry(s, d)
                 THEN trades' # None /\ SameRows(trades', intraday_files[<<s, d>>])
                 ELSE trades' = None]_vars

\* a licensed provider was asked for an older day it never cached and has
\* answered None without a request
C12_Witness ==
    /\ last_trades_call.op = "get"
    /\ licence
    /\ last_trades_call.day < TradingDayNow
    /\ ~HasEntry(last_trades_call.sym, last_trades_call.day)
    /\ ~requested
    /\ trades = None

\* this step is a get_historical_trades for (s, d)
IsGetHistorical(s, d) ==
    /\ TradesIdle
    /\ last_trades_call'.op = "hist"
    /\ last_trades_call'.sym = s
    /\ last_trades_call'.day = d

\* C13: get_historical_trades sends no request and writes nothing; it returns
\* the persisted ticks of (symbol, day) whenever an entry is persisted for
\* it, and None only when none is.
C13_HistoricalReadsOnly ==
    [][\A s \in Symbols, d \in ResolvedDays :
          IsGetHistorical(s, d) =>
              /\ ~requested'
              /\ ~saved'
              /\ intraday_files' = intraday_files
              /\ intraday_metadata' = intraday_metadata
              /\ IF <<s, d>> \in DOMAIN intraday_files
                 THEN trades' # None /\ SameRows(trades', intraday_files[<<s, d>>])
                 ELSE trades' = None]_vars

\* get_historical_trades has returned, after the update hour, the two ticks
\* persisted for today
C13_Witness ==
    /\ last_trades_call.op = "hist"
    /\ last_trades_call.day = now \div 24
    /\ now % 24 >= 21
    /\ trades # None
    /\ Len(trades) = 2

\* ---- range store: failures ------------------------------------------------
\* the step called the fetch function and every response was empty
AllFetchesFailed ==
    /\ calls' # <<>>
    /\ \A i \in DOMAIN responses' : responses'[i] = <<>>

\* C14: when the fetch returns empty for every gap, get_data_with_cache does
\* not raise and returns exactly the cached bars dated in [start, end], an
\* empty result when there is no valid cache.
C14_FetchFailureServesCache ==
    [][\A s \in Symbols, a \in Dates, b \in Dates :
          (IsGet(s, a, b) /\ AllFetchesFailed) =>
              /\ result' # Raised
              /\ result' = (IF HasValidCache(s) THEN BarsIn(files[s], a, b) ELSE <<>>)]_vars

\* the step is a get_intraday_trades whose request raised or brought nothing
TradesFetchFailed ==
    /\ TradesIdle
    /\ last_trades_call'.op = "get"
    /\ requested'
    /\ (api_data' = <<>> \/ api_data' = ApiError)

\* C15: a get whose fetch calls all fail or return empty leaves the persisted
\* state as it was: series files and metadata of the range store, tick files
\* and entries of the day store.
C15_FailedRefreshKeepsCache ==
    [][/\ (Idle /\ last'.op = "get" /\ AllFetchesFailed) =>
              (files' = files /\ metadata' = metadata)
       /\ TradesFetchFailed =>
              (intraday_files' = intraday_files /\ intraday_metadata' = intraday_metadata)]_vars

\* a get has found a cached series, fetched a gap beside it and got nothing
C15_Witness ==
    /\ last.op = "get"
    /\ loaded # None
    /\ calls # <<>>
    /\ \A i \in DOMAIN responses : responses[i] = <<>>
    /\ last.sym \in DOMAIN files
    /\ files[last.sym] = loaded

C17_InvalidRangeRejected ==
    [][\A s \in Symbols, a \in Dates, b \in Dates :
          (IsGet(s, a, b) /\ b < a) =>
              /\ result' = <<>>
              /\ calls' = <<>>
              /\ files' = files
              /\ metadata' = metadata]_vars

\* the persisted state of the symbol is damaged: its metadata entry has no
\* readable series file or no parsable last_update, or its series file has
\* no metadata entry
PersistedStateCorrupt(s) ==
    IF s \in DOMAIN metadata
    THEN \/ s \notin DOMAIN files
         \/ files[s] = Unreadable
         \/ metadata[s].last_update = Unparsable
    ELSE s \in DOMAIN files

\* the symbol's series file and metadata entry agree and carry this stamp
ConsistentEntry(f, m, s, t) ==
    /\ s \in DOMAIN f
    /\ s \in DOMAIN m
    /\ f[s] # Unreadable
    /\ f[s] # <<>>
    /\ m[s] = [last_update |-> t,
               start |-> SetMin({f[s][i].date : i \in DOMAIN f[s]}),
               end |-> SetMax({f[s][i].date : i \in DOMAIN f[s]}),
               record_count |-> Len(f[s])]

\* C18: a get for a symbol whose persisted state is damaged treats the
\* symbol as uncached: it calls the fetch function once, for the whole
\* [start, end], and when the fetch brings data the call does not raise and
\* leaves a series file and a metadata entry that agree.
C18_CorruptStateIsUncached ==
    [][\A s \in Symbols, a \in Dates, b \in Dates :
          (IsGet(s, a, b) /\ a <= b /\ PersistedStateCorrupt(s)) =>
              /\ calls' = << <<a, b>> >>
              /\ (\E i \in DOMAIN responses' : responses'[i] # <<>>) =>
                    /\ result' # Raised
                    /\ ConsistentEntry(files', metadata', s, now)]_vars

\* symbol x has the same series file and metadata entry before and after
SymbolUnchanged(x) ==
    /\ (x \in DOMAIN files') = (x \in DOMAIN files)
    /\ (x \in DOMAIN metadata') = (x \in DOMAIN metadata)
    /\ x \in DOMAIN files => files'[x] = files[x]
    /\ x \in DOMAIN metadata => metadata'[x] = metadata[x]

\* C19: clear(symbol) removes the symbol's series and metadata entry and
\* leaves every other symbol's as they are; clear(all) removes every series
\* and every entry; a get for a symbol with nothing persisted, as a clear
\* leaves it, fetches the single gap [start, end].
C19_ClearFrame ==
    [][/\ (Idle /\ last'.op = "clear" /\ last'.sym # NoSymbol) =>
              /\ last'.sym \notin DOMAIN files'
              /\ last'.sym \notin DOMAIN metadata'
              /\ \A x \in PairSymbols \ {last'.sym} : SymbolUnchanged(x)
       /\ (Idle /\ last'.op = "clear" /\ last'.sym = NoSymbol) =>
              (DOMAIN files' = {} /\ DOMAIN metadata' = {})
       /\ \A s \in PairSymbols, a \in Dates, b \in Dates :
              (IsGet(s, a, b) /\ s \notin DOMAIN files /\ s \notin DOMAIN metadata) =>
                  calls' = << <<a, b>> >>]_vars

\* clear("A") has returned; "B" is still cached, all three dates of it
C19_Witness ==
    /\ last.op = "clear"
    /\ last.sym = "A"
    /\ "A" \notin DOMAIN files
    /\ "B" \in DOMAIN files
    /\ "B" \in DOMAIN metadata
    /\ metadata["B"].record_count = 3

\* get_stock_data(s, a, b) with its defaults: the default provider, the
\* market detected from the code, through the cache
DefaultGet(f) ==
    /\ f.op = "get_stock_data"
    /\ f.provider = NoSymbol
    /\ f.market_type = NoSymbol
    /\ f.use_cache

\* C20: get_stock_data, get_cache_info and clear_cache of the facade address
\* the same entry for the same caller-supplied symbol: after a successful
\* get_stock_data(s, ...) get_cache_info(s) is not empty and tells the range
\* and record count; after clear_cache(s) get_cache_info(s) is empty, and the
\* next get_stock_data(s, a, b) fetches the whole [a, b].
C20_FacadeAddressesSameEntry ==
    [][/\ (DefaultGet(facade') /\ facade'.data # <<>> /\ facade'.queried
             /\ facade'.info_for = facade'.sym) =>
              /\ DOMAIN facade'.info = {"last_update", "start", "end", "record_count"}
              /\ facade'.info.record_count >= Len(facade'.data)
              /\ facade'.info.start <= facade'.data[1].date
              /\ facade'.info.end >= facade'.data[Len(facade'.data)].date
       /\ (facade'.op = "clear_cache" /\ facade'.sym # NoSymbol /\ facade'.queried
             /\ facade'.info_for = facade'.sym) =>
              DOMAIN facade'.info = {}
       /\ (facade.op = "clear_cache" /\ facade.sym # NoSymbol
             /\ DefaultGet(facade') /\ facade'.sym = facade.sym) =>
              calls' = << <<facade'.start, facade'.end>> >>]_vars

\* C21: a get_stock_data(sym, c, d) through the cache whose range equals or
\* lies inside the range [a, b] of an earlier successful cached call for the
\* same symbol does not call the adapter and returns the earlier result
\* restricted to [c, d], whether or not the adapter has bars on a, b, c, d.
C21_RepeatServedFromCache ==
    [][(/\ DefaultGet(facade)
        /\ facade.data # <<>>
        /\ DefaultGet(facade')
        /\ ~facade'.queried
        /\ facade'.sym = facade.sym
        /\ facade.start <= facade'.start
        /\ facade'.start <= facade'.end
        /\ facade'.end <= facade.end) =>
           /\ calls' = <<>>
           /\ facade'.data = BarsIn(facade.data, facade'.start, facade'.end)]_vars

\* the step is one of instance m
StepOf(m) == managers'[m] # managers[m]

\* C22: calls for different symbols need no coordination, through one manager
\* or through instances of their own over the same directory: no step of a
\* call for one symbol changes, loses or reverts the series file or the
\* metadata entry of the other symbol.
C22_SymbolsIndependent ==
    [][\A m \in Managers :
          StepOf(m) =>
              \A x \in PairSymbols \ {ManagerSymbol[m]} : SymbolUnchanged(x)]_vars

\* ---- day store: cleanup and consistency ------------------------------------
\* this step is the call cleanup_old_data(k)
IsCleanup(k) ==
    /\ TradesIdle
    /\ last_trades_call' =
           [op |-> "cleanup", sym |-> NoSymbol, arg |-> k, day |-> NoDate]

\* the keys that have a tick file or a metadata entry
DayKeys == DOMAIN intraday_files \cup DOMAIN intraday_metadata

\* C23: cleanup(days_to_keep) removes the tick file and the metadata entry of
\* exactly the entries whose trading day is earlier than today - days_to_keep,
\* leaves every other entry as it is, returns the number of entries removed
\* and leaves no empty directory of a symbol; afterwards the days listed for
\* a symbol hold no day older than the retention window.
C23_CleanupRemovesExactlyTheOld ==
    [][\A k \in KeepDays :
          IsCleanup(k) =>
              /\ \A s \in DaySymbols, d \in TradeDays :
                     IF d < now \div 24 - k
                     THEN /\ <<s, d>> \notin DOMAIN intraday_files'
                          /\ <<s, d>> \notin DOMAIN intraday_metadata'
                     ELSE /\ (<<s, d>> \in DOMAIN intraday_files')
                                 = (<<s, d>> \in DOMAIN intraday_files)
                          /\ (<<s, d>> \in DOMAIN intraday_metadata')
                                 = (<<s, d>> \in DOMAIN intraday_metadata)
                          /\ <<s, d>> \in DOMAIN intraday_files =>
                                 intraday_files'[<<s, d>>] = intraday_files[<<s, d>>]
                          /\ <<s, d>> \in DOMAIN intraday_metadata =>
                                 intraday_metadata'[<<s, d>>] = intraday_metadata[<<s, d>>]
              /\ cleaned_count' =
                     Cardinality({key \in DayKeys : key[2] < now \div 24 - k})
              /\ \A s \in intraday_dirs' :
                     \E key \in DOMAIN intraday_files' : key[1] = s
              /\ \A s \in DaySymbols :
                     \A i \in DOMAIN get_available_dates(s)' :
                         get_available_dates(s)'[i] >= now \div 24 - k]_vars

\* a cleanup has removed the only day of one symbol, and with it the
\* directory, and kept a later day of the other
C23_Witness ==
    /\ last_trades_call.op = "cleanup"
    /\ cleaned_count = 1
    /\ intraday_dirs = {"B"}
    /\ DOMAIN intraday_files = {<<"B", 1>>}
    /\ DOMAIN intraday_metadata = {<<"B", 1>>}

\* ---- range store: clipping, write order, expiry ----------------------------
\* the series a get starts from: the persisted one, or none when there is
\* no valid cache
PreviousSeries(s) == IF HasValidCache(s) THEN files[s] ELSE <<>>

\* date d lies in one of the sub-ranges the step asked the fetch function for
InFetchedGap(d) ==
    \E i \in DOMAIN calls' : calls'[i][1] <= d /\ d <= calls'[i][2]

\* C24 (clipping): after a get that fetched, the persisted series differs
\* from the previous series only at dates inside the fetched gaps: no cached
\* bar inside [min, max] is overwritten and no date outside every requested
\* gap is added.
C24_FetchedRowsAreClipped ==
    [][\A s \in Symbols, a \in Dates, b \in Dates :
          (IsGet(s, a, b) /\ calls' # <<>> /\ s \in DOMAIN files') =>
              \A d \in Dates :
                  ~InFetchedGap(d) =>
                      RowsFor(files'[s], d) = RowsFor(PreviousSeries(s), d)]_vars

\* what the metadata entry of s claims is held by the series file of s
MetadataCovered(s) ==
    s \in DOMAIN metadata =>
        /\ s \in DOMAIN files
        /\ files[s] # Unreadable
        /\ files[s] # <<>>
        /\ IndexMin(files[s]) <= metadata[s].start
        /\ IndexMax(files[s]) >= metadata[s].end

\* this step is the first write of _save_data_to_cache (the series), or what
\* follows it: the second write (the metadata) or the death of the process
InSave(m) ==
    \/ managers[m].pc = "to_csv" /\ managers'[m].pc = "save_metadata"
    \/ managers[m].pc = "save_metadata" /\ StepOf(m)

\* C25: in a get that writes, the series is persisted before the metadata, so
\* in every intermediate state, a crash between the two writes included and
\* the replacement of an expired or unreadable cache included, the range
\* the persisted metadata claims for the symbol is covered by the persisted
\* series.
C25_MetadataNeverClaimsMore ==
    [][InSave(OneManager) => MetadataCovered("A")']_vars

\* the entry of s was written more than cache_expire_days days ago
OlderThanExpiry(s) == now - metadata[s].last_update > 7 * 24

\* C26 (expiry): when the last_update of the symbol's entry is older than the
\* expiry of 7 days, a get behaves as with no cache: the fetch function is
\* called once, for the whole [start, end], and no bar of the expired series
\* is returned; when it is not older, the cached series is used.
C26_ExpiredCacheIsAbsent ==
    [][\A s \in Symbols, a \in Dates, b \in Dates :
          (IsGet(s, a, b) /\ a <= b /\ s \in DOMAIN metadata /\ s \in DOMAIN files) =>
              IF OlderThanExpiry(s)
              THEN /\ calls' = << <<a, b>> >>
                   /\ result' # Raised =>
                          \A i \in DOMAIN result' : result'[i] \in Range(responses'[1])
              ELSE loaded' = files[s]]_vars

\* ---- day store: validity on the current trading day --------------------------
\* this step is the call get_intraday_data(s, d) on the cache manager
IsRead(s, d) ==
    /\ TradesIdle
    /\ last_trades_call' =
           [op |-> "read", sym |-> s, arg |-> d, day |-> d]

\* C27: for the current trading day (the day resolve_trading_day(now) gives)
\* an entry is valid only if its last_update, date and time, is at or after
\* the cutover instant (21:00) of that day, so an entry written before the
\* cutover is not served once the cutover has passed; and a day later than
\* the current trading day is never valid.
C27_ValidOnlyIfWrittenAfterCutover ==
    [][\A s \in DaySymbols, d \in TradeDays :
          (IsRead(s, d) /\ trades' # None) =>
              /\ d <= TradingDayNow
              /\ d = TradingDayNow =>
                     intraday_metadata[<<s, d>>].last_update >= d * 24 + 21]_vars

\* ---- day store: order of the ticks ----------------------------------------
IsAscendingByTime(df) ==
    \A i, j \in DOMAIN df : i < j => df[i].time <= df[j].time

\* C28: every day's ticks are ascending by timestamp, as persisted and as
\* returned: get_intraday_trades and get_historical_trades return them in
\* ascending order whether they come from a fresh fetch or from the cache.
C28_TicksAscending ==
    /\ \A key \in DOMAIN intraday_files : IsAscendingByTime(intraday_files[key])
    /\ (last_trades_call.op \in {"get", "hist"} /\ trades # None) =>
           IsAscendingByTime(trades)

\* ---- day store: the cutover while a request is out ----------------------------
\* C29: the ticks persisted under (symbol, day) are ticks the provider
\* returned while its current day was day: when the clock crosses the 21:00
\* cutover between the day-match check and the provider's response, the
\* response is not stored under the earlier day's key.
C29_SavedUnderTheDayServed ==
    (pending.pc = "done" /\ saved) => pending.api_day = pending.day

\* ---- day store: files and metadata agree ---------------------------------------
\* the days the metadata holds for a symbol
MetadataDays(s) == {key[2] : key \in {k \in DOMAIN intraday_metadata : k[1] = s}}

\* C30 (day-store consistency): after any sequence of save_intraday_data,
\* get_intraday_data, clear_cache (by symbol and day, by symbol, or all) and
\* cleanup_old_data on one IntradayCacheManager, a metadata entry exists for
\* (symbol, day) if and only if a tick file exists for it, so the days
\* get_available_dates(symbol) lists, from the files, are the days of that
\* symbol's metadata.
C30_EntryIffFile ==
    /\ DOMAIN intraday_metadata = DOMAIN intraday_files
    /\ \A s \in DaySymbols : Range(get_available_dates(s)) = MetadataDays(s)

\* a clear by symbol and day has left the other day of that symbol and a day
\* of the other symbol in place
C30_Witness ==
    /\ last_trades_call.op = "clear"
    /\ last_trades_call.sym = "A"
    /\ last_trades_call.arg = 0
    /\ DOMAIN intraday_files = {<<"A", 1>>, <<"B", 0>>}
    /\ get_available_dates("A") = <<1>>

====
